---- MODULE Spec2Model ----
(***************************************************************************)
(* Lifecycle-hook reconciliation of cluster-api-provider-aws.              *)
(*                                                                         *)
(*   - the ASG service's lifecycle-hook gateway (LifecycleHookNeedsUpdate, *)
(*     Get/Create/Update/DeleteLifecycleHook, SDKToLifecycleHook),         *)
(*   - the EC2 service's ReconcileLifecycleHooks / reconcileLifecycleHook, *)
(*   - the remote Auto Scaling API as the environment the calls act on.    *)
(*                                                                         *)
(* Go pointers are modelled as records [base, val]: base names the         *)
(* allocation the pointer refers to and val the value stored there, so two *)
(* pointers are equal (Go's == / != on pointers) exactly when they are the *)
(* same record, and two distinct allocations may hold equal values.        *)
(* A time.Duration d is held as the pair [sec, nsec] of d / Second and      *)
(* d % Second, the two parts Duration.Seconds() adds up as float64.        *)
(***************************************************************************)
EXTENDS Integers, Sequences, FiniteSets, TLC

\* ------------------------------------------------------------------ bounds

\* Longest desired hook list (MachinePool spec) that is explored.
MaxHooks == 2
\* Number of passes of ReconcileLifecycleHooks started in one behaviour.
MaxPasses == 2
\* Largest heartbeat timeout, in whole seconds, that is explored.
MaxSeconds == 2

\* time.Second, in nanoseconds.
Second == 1000000000

\* Hook names that exist in the explored world.
Names == {"a", "b"}

\* ------------------------------------------------------------------ values

\* A nil *string / *DefaultResult, and a nil *metav1.Duration / *int64.
NilStr == [base |-> "nil", val |-> ""]
NilInt == [base |-> "nil", val |-> 0]

\* A non-nil pointer into allocation b holding v.
Ptr(b, v) == [base |-> b, val |-> v]

IsNil(p) == p.base = "nil"

\* expinfrav1.LifecycleTransition and expinfrav1.DefaultResult, as strings.
LifecycleTransitions == {"autoscaling:EC2_INSTANCE_LAUNCHING", "autoscaling:EC2_INSTANCE_TERMINATING"}
DefaultResults == {"CONTINUE", "ABANDON"}

\* time.Duration
Duration(sec, nsec) == [sec |-> sec, nsec |-> nsec]
\* Heartbeat durations of a whole number of seconds.
WholeDurations == {Duration(s, 0) : s \in 1..MaxSeconds}

\* expinfrav1.AWSLifecycleHook
AWSLifecycleHook(name, target, role, transition, timeout, result, metadata) ==
    [Name |-> name,
     NotificationTargetARN |-> target,
     RoleARN |-> role,
     LifecycleTransition |-> transition,
     HeartbeatTimeout |-> timeout,
     DefaultResult |-> result,
     NotificationMetadata |-> metadata]

\* autoscaling.LifecycleHook / autoscaling.PutLifecycleHookInput: every field
\* is a pointer of the SDK; an absent field is a nil pointer.
WireHook(name, target, role, transition, timeout, result, metadata) ==
    [LifecycleHookName |-> name,
     NotificationTargetARN |-> target,
     RoleARN |-> role,
     LifecycleTransition |-> transition,
     HeartbeatTimeout |-> timeout,
     DefaultResult |-> result,
     NotificationMetadata |-> metadata]

RECURSIVE TwoTo(_)
TwoTo(n) == IF n = 0 THEN 1 ELSE 2 * TwoTo(n - 1)
RECURSIVE Log2(_)
Log2(n) == IF n < 2 THEN 0 ELSE 1 + Log2(n \div 2)
Abs(n) == IF n >= 0 THEN n ELSE -n

\* Duration.Seconds() is float64(sec) + float64(nsec)/1e9. A float64 has 53
\* significant bits: next to a whole number of magnitude in [2^e, 2^(e+1)) the
\* float64 values are 2^(e-52) apart, and the sum is rounded to the nearest of
\* them. It is the next whole number, sec + 1 in magnitude, when the
\* fraction is within half that distance of 1, that is when
\* (Second - |nsec|) * 2^(53-e) <= Second.
Float64RoundsToNext(sec, nsec) ==
    /\ sec # 0
    /\ nsec # 0
    /\ Log2(Abs(sec)) >= 23
    /\ Second - Abs(nsec) <= Second \div TwoTo(53 - Log2(Abs(sec)))

\* int64(d.Seconds()): the conversion of the float64 to int64 truncates
\* toward zero.
Int64OfSeconds(d) ==
    IF Float64RoundsToNext(d.sec, d.nsec)
        THEN (IF d.sec > 0 THEN d.sec + 1 ELSE d.sec - 1)
        ELSE d.sec

\* The value the SDK allocates for a field it copies out of the hook
\* (aws.String, aws.Int64), or nil when the field is not set.
InputStr(p) == IF IsNil(p) THEN NilStr ELSE Ptr("input", p.val)

\* ------------------------------------------------------------------ gateway

\* The comparison with the NotificationMetadata disjunct left out.
LifecycleHookNeedsUpdateNoMetadata(existing, expected) ==
    \/ existing.DefaultResult # expected.DefaultResult
    \/ existing.HeartbeatTimeout # expected.HeartbeatTimeout
    \/ existing.LifecycleTransition # expected.LifecycleTransition
    \/ existing.NotificationTargetARN # expected.NotificationTargetARN

\* LifecycleHookNeedsUpdate: != on the four pointer fields compares the
\* pointers, != on LifecycleTransition compares the strings.
LifecycleHookNeedsUpdate(existing, expected) ==
    \/ existing.DefaultResult # expected.DefaultResult
    \/ existing.HeartbeatTimeout # expected.HeartbeatTimeout
    \/ existing.LifecycleTransition # expected.LifecycleTransition
    \/ existing.NotificationTargetARN # expected.NotificationTargetARN
    \/ existing.NotificationMetadata # expected.NotificationMetadata

\* The PutLifecycleHookInput that CreateLifecycleHook builds from a hook.
CreateLifecycleHookInput(hook) ==
    WireHook(hook.Name,
             IF ~IsNil(hook.NotificationTargetARN) THEN hook.NotificationTargetARN ELSE NilStr,
             IF ~IsNil(hook.RoleARN) THEN hook.RoleARN ELSE NilStr,
             Ptr("input", hook.LifecycleTransition),
             IF ~IsNil(hook.HeartbeatTimeout)
                 THEN Ptr("input", Int64OfSeconds(hook.HeartbeatTimeout.val))
                 ELSE NilInt,
             InputStr(hook.DefaultResult),
             IF ~IsNil(hook.NotificationMetadata) THEN hook.NotificationMetadata ELSE NilStr)

\* The PutLifecycleHookInput that UpdateLifecycleHook builds from a hook.
UpdateLifecycleHookInput(hook) ==
    WireHook(hook.Name,
             IF ~IsNil(hook.NotificationTargetARN) THEN hook.NotificationTargetARN ELSE NilStr,
             IF ~IsNil(hook.RoleARN) THEN hook.RoleARN ELSE NilStr,
             Ptr("input", hook.LifecycleTransition),
             IF ~IsNil(hook.HeartbeatTimeout)
                 THEN Ptr("input", Int64OfSeconds(hook.HeartbeatTimeout.val))
                 ELSE NilInt,
             InputStr(hook.DefaultResult),
             IF ~IsNil(hook.NotificationMetadata) THEN hook.NotificationMetadata ELSE NilStr)

\* SDKToLifecycleHook dereferences HeartbeatTimeout, DefaultResult,
\* LifecycleTransition and LifecycleHookName: a nil one is a nil-pointer panic.
SDKToLifecycleHookPanics(hook) ==
    \/ IsNil(hook.HeartbeatTimeout)
    \/ IsNil(hook.DefaultResult)
    \/ IsNil(hook.LifecycleTransition)

\* SDKToLifecycleHook, where it does not panic: the duration and the default
\* result are fresh allocations of the call, the three optional strings are
\* the pointers of the response.
SDKToLifecycleHook(hook) ==
    AWSLifecycleHook(hook.LifecycleHookName,
                     hook.NotificationTargetARN,
                     hook.RoleARN,
                     hook.LifecycleTransition.val,
                     Ptr("sdk", Duration(hook.HeartbeatTimeout.val, 0)),
                     Ptr("sdk", hook.DefaultResult.val),
                     hook.NotificationMetadata)

\* ------------------------------------------------------------------ remote API

\* The same hook with every non-nil pointer re-based into allocation b: what
\* the remote group stores of a request ("remote"), and what the SDK
\* unmarshals of a response ("response").
Rebase(w, b) ==
    [f \in DOMAIN w |->
        IF f = "LifecycleHookName" THEN w[f]
        ELSE IF IsNil(w[f]) THEN w[f] ELSE Ptr(b, w[f].val)]

\* PutLifecycleHook is create-or-replace by name. What the group then holds is
\* the request, or the request with an absent default result and heartbeat
\* timeout filled in by a remote-side default.
PutLifecycleHookOutcomes(input) ==
    LET asSent == Rebase(input, "remote") IN
    {asSent} \cup
    {[asSent EXCEPT !.DefaultResult = IF IsNil(@) THEN Ptr("remote", r) ELSE @,
                    !.HeartbeatTimeout = IF IsNil(@) THEN Ptr("remote", t) ELSE @] :
        r \in DefaultResults, t \in 1..MaxSeconds}

\* ------------------------------------------------------------------ state

\* Callers that may be inside ReconcileLifecycleHooks.
Procs == {1, 2}

\* clusterv1.Condition types written by the pass (two identifiers of the API
\* package, two condition types), the reasons, and a condition's value.
LifecycleHookExistsCondition == "LifecycleHookExists"
LifecycleHookReadyCondition == "LifecycleHookReady"
ConditionTypes == {LifecycleHookExistsCondition, LifecycleHookReadyCondition}

LifecycleHookCreationFailedReason == "LifecycleHookCreationFailed"
LifecycleHookUpdateFailedReason == "LifecycleHookUpdateFailed"
LifecycleHookDeletionFailedReason == "LifecycleHookDeletionFailed"
LifecycleHookNotFoundReason == "LifecycleHookNotFound"

NoCondition == [status |-> "", reason |-> ""]
TrueCondition == [status |-> "True", reason |-> ""]
FalseCondition(reason) == [status |-> "False", reason |-> reason]
UnknownCondition(reason) == [status |-> "Unknown", reason |-> reason]

VARIABLES
    desired,        \* AWSMachinePool.Spec.AWSLifecycleHooks
    remote,         \* the group's hooks: name -> <<>> or <<stored hook>>
    conditions,     \* the MachinePool's conditions, by type
    pc,             \* per caller: where its pass stands
    lifecyleHooks,  \* per caller: scope.GetLifecycleHooks() of its pass
    i,              \* per caller: index of the desired hook in hand
    hooks,          \* per caller: the list GetLifecycleHooks returned
    j,              \* per caller: index into hooks of the orphan in hand
    ret,            \* per caller: what its pass returned
    previous,       \* per caller: what its pass before this one returned
    calls,          \* per caller: the remote calls of its pass, in order
    marks,          \* per caller: the condition writes of its pass, in order
    passes,         \* passes started so far
    startNames,     \* per caller: the names on the group when its pass started
    overlapped,     \* has a pass started while another caller's pass was running
    healed,         \* have the remote calls stopped failing
    argExisting,    \* input of the pure functions under check
    argExpected,    \* input of the pure functions under check
    needsUpdate,    \* their result, "unset" before the call
    params,         \* the LifecycleHookScopeParams given to NewLifecycleHookScope
    scope,          \* what NewLifecycleHookScope returned
    wire,           \* a PutLifecycleHookInput and the hook the group answers with
    converted       \* what SDKToLifecycleHook made of that hook

vars == <<desired, remote, conditions, pc, lifecyleHooks, i, hooks, j, ret,
          previous, calls, marks, passes, startNames, overlapped,
          healed, argExisting, argExpected, needsUpdate,
          params, scope, wire, converted>>

passVars == <<desired, remote, conditions, pc, lifecyleHooks, i, hooks, j, ret,
              previous, calls, marks, passes, startNames, overlapped>>
\* What a step inside a pass leaves alone: the record of how passes started,
\* and what belongs to the environment and to the pure functions.
histVars == <<startNames, overlapped>>
scopeVars == <<params, scope>>
convertVars == <<wire, converted>>
pureVars == <<healed, argExisting, argExpected, needsUpdate, scopeVars, convertVars>>

\* ------------------------------------------------------------------ inputs

\* Hooks a pool's spec declares under a name: every optional field absent;
\* every optional field present; a heartbeat with a sub-second part.
PoolHooks(n) ==
    {AWSLifecycleHook(n, NilStr, NilStr, "autoscaling:EC2_INSTANCE_LAUNCHING",
                      NilInt, NilStr, NilStr),
     AWSLifecycleHook(n, Ptr("spec", "arn:sns"), Ptr("spec", "arn:role"),
                      "autoscaling:EC2_INSTANCE_LAUNCHING",
                      Ptr("spec", Duration(1, 0)), Ptr("spec", "CONTINUE"), Ptr("spec", "meta")),
     AWSLifecycleHook(n, NilStr, NilStr, "autoscaling:EC2_INSTANCE_TERMINATING",
                      Ptr("spec", Duration(1, Second \div 2)), Ptr("spec", "ABANDON"), NilStr)}

AllPoolHooks == UNION {PoolHooks(n) : n \in Names}

\* Desired lists: every list of at most MaxHooks pool hooks.
DesiredLists == UNION {[1..k -> AllPoolHooks] : k \in 0..MaxHooks}

\* What the group may hold before the first pass: under each name nothing, or
\* a hook as one of the pool hooks of that name would be sent.
InitialRemote ==
    {O \in [Names -> {<<>>} \cup {<<Rebase(CreateLifecycleHookInput(h), "remote")>> : h \in AllPoolHooks}] :
        \A n \in Names : O[n] = <<>> \/ O[n][1].LifecycleHookName = n}

InitialConditions ==
    {[t \in ConditionTypes |-> IF t = LifecycleHookExistsCondition THEN c ELSE NoCondition] :
        c \in {NoCondition, TrueCondition, FalseCondition(LifecycleHookUpdateFailedReason)}}

NoHook == AWSLifecycleHook("", NilStr, NilStr, "", NilInt, NilStr, NilStr)

HookNames(hs) == {hs[k].Name : k \in DOMAIN hs}
RemoteNames == {n \in Names : remote[n] # <<>>}

\* ------------------------------------------------------------------ helpers of the pass

Call(op, name, res) == [op |-> op, name |-> name, res |-> res]

\* A condition write: the type, the value written, and the index of the
\* desired hook in hand when it was written.
Mark(type, cond, at) == [type |-> type, cond |-> cond, at |-> at]

\* conditions.MarkTrue / MarkFalse / MarkUnknown on the MachinePool, by caller p.
MarkCondition(p, type, cond) ==
    /\ conditions' = [conditions EXCEPT ![type] = cond]
    /\ marks' = [marks EXCEPT ![p] = Append(@, Mark(type, cond, i[p]))]

\* The condition a failed GetLifecycleHook is reported with.
GetFailedType == LifecycleHookReadyCondition
GetFailedCondition == UnknownCondition(LifecycleHookNotFoundReason)
\* The condition written when CreateLifecycleHook fails (and the same write
\* with the reason of the update branch).
CreateFailedConditionUpdateReason == FalseCondition(LifecycleHookUpdateFailedReason)
CreateFailedCondition == FalseCondition(LifecycleHookCreationFailedReason)

\* The for loop of ReconcileLifecycleHooks after hook i[p] returned nil: the
\* next desired hook, or the list call once the range is exhausted.
\* (NextDesiredHookListEarly: the loop left after its first hook.
\*  NextDesiredHookRetry: the loop taking the same hook again.)
NextDesiredHookListEarly(p) ==
    /\ i' = [i EXCEPT ![p] = @ + 1]
    /\ pc' = [pc EXCEPT ![p] = "list"]
NextDesiredHookRetry(p) ==
    /\ i' = i
    /\ pc' = [pc EXCEPT ![p] = "get"]
NextDesiredHook(p) ==
    /\ i' = [i EXCEPT ![p] = @ + 1]
    /\ pc' = [pc EXCEPT ![p] = IF i[p] + 1 <= Len(lifecyleHooks[p]) THEN "get" ELSE "list"]

\* The pass returns: err is "nil", "error" or "panic".
Return(p, err) ==
    /\ pc' = [pc EXCEPT ![p] = "done"]
    /\ ret' = [ret EXCEPT ![p] = err]

\* The inner loop of the pruning step: is hook defined in the MachinePool?
\* (FoundNever: the loop with its name test never matching.
\*  FoundFirstOnly: the loop leaving after the first defined hook.)
FoundFirstOnly(p, hook) ==
    /\ Len(lifecyleHooks[p]) > 0
    /\ lifecyleHooks[p][1].Name = hook.Name
FoundNever(p, hook) == FALSE
Found(p, hook) == \E k \in DOMAIN lifecyleHooks[p] : hook.Name = lifecyleHooks[p][k].Name

\* The first index from `from` on of a listed hook that is not defined in the
\* MachinePool, Len + 1 when there is none.
RECURSIVE NextOrphan(_, _, _)
NextOrphan(p, hs, from) ==
    IF from > Len(hs) THEN from
    ELSE IF ~Found(p, hs[from]) THEN from
    ELSE NextOrphan(p, hs, from + 1)

\* The outer loop of the pruning step from index `from` on: the next delete
\* call, or the return of nil.
Prune(p, hs, from) ==
    LET k == NextOrphan(p, hs, from) IN
    /\ j' = [j EXCEPT ![p] = k]
    /\ IF k <= Len(hs)
          THEN /\ pc' = [pc EXCEPT ![p] = "delete"]
               /\ ret' = ret
          ELSE Return(p, "nil")

\* Every order in which the remote API may list a set of hooks.
Listings(S) == {l \in [1..Cardinality(S) -> S] : \A x, y \in DOMAIN l : x # y => l[x] # l[y]}

\* ------------------------------------------------------------------ the pass

\* A caller's pass is running: it has been entered and has not returned.
Running(p) == pc[p] \notin {"idle", "done"}

\* ReconcileLifecycleHooks is entered by caller p: it reads the desired list.
Enter(p) ==
    /\ pc[p] \in {"idle", "done"}
    /\ startNames' = [startNames EXCEPT ![p] = RemoteNames]
    /\ overlapped' = (overlapped \/ \E q \in Procs \ {p} : Running(q))
    /\ lifecyleHooks' = [lifecyleHooks EXCEPT ![p] = desired]
    /\ i' = [i EXCEPT ![p] = 1]
    /\ pc' = [pc EXCEPT ![p] = IF Len(desired) >= 1 THEN "get" ELSE "list"]
    /\ hooks' = [hooks EXCEPT ![p] = <<>>]
    /\ j' = [j EXCEPT ![p] = 1]
    /\ previous' = [previous EXCEPT ![p] = ret[p]]
    /\ ret' = [ret EXCEPT ![p] = "none"]
    /\ calls' = [calls EXCEPT ![p] = <<>>]
    /\ marks' = [marks EXCEPT ![p] = <<>>]
    /\ UNCHANGED <<desired, remote, conditions, pureVars>>

\* One of the MaxPasses invocations of ReconcileLifecycleHooks by caller p.
Start(p) ==
    /\ passes < MaxPasses
    /\ passes' = passes + 1
    /\ Enter(p)

\* reconcileLifecycleHook, from its entry to the call it makes next:
\* GetLifecycleHook, then the branch on its result.
GetLifecycleHook(p) ==
    /\ pc[p] = "get"
    /\ LET hook == lifecyleHooks[p][i[p]]
           out == remote[hook.Name]
       IN
       \/ \* the describe call fails
          /\ calls' = [calls EXCEPT ![p] = Append(@, Call("GetLifecycleHook", hook.Name, "error"))]
          /\ MarkCondition(p, GetFailedType, GetFailedCondition)
          /\ Return(p, "error")
          /\ UNCHANGED <<i>>
       \/ \* no hook of that name: existingHook == nil, create it next
          /\ out = <<>>
          /\ calls' = [calls EXCEPT ![p] = Append(@, Call("GetLifecycleHook", hook.Name, "absent"))]
          /\ pc' = [pc EXCEPT ![p] = "create"]
          /\ UNCHANGED <<conditions, marks, ret, i>>
       \/ \* the hook exists and SDKToLifecycleHook panics on the response
          /\ out # <<>>
          /\ SDKToLifecycleHookPanics(Rebase(out[1], "response"))
          /\ calls' = [calls EXCEPT ![p] = Append(@, Call("GetLifecycleHook", hook.Name, "present"))]
          /\ Return(p, "panic")
          /\ UNCHANGED <<conditions, marks, i>>
       \/ \* the hook exists: compare it with the desired one
          /\ out # <<>>
          /\ ~SDKToLifecycleHookPanics(Rebase(out[1], "response"))
          /\ calls' = [calls EXCEPT ![p] = Append(@, Call("GetLifecycleHook", hook.Name, "present"))]
          /\ IF LifecycleHookNeedsUpdate(SDKToLifecycleHook(Rebase(out[1], "response")), hook)
                THEN /\ pc' = [pc EXCEPT ![p] = "update"]
                     /\ UNCHANGED <<conditions, marks, ret, i>>
                ELSE /\ MarkCondition(p, LifecycleHookExistsCondition, TrueCondition)
                     /\ NextDesiredHook(p)
                     /\ UNCHANGED <<ret>>
    /\ UNCHANGED <<desired, remote, lifecyleHooks, hooks, j, previous, passes, histVars, pureVars>>

\* reconcileLifecycleHook, the existingHook == nil branch: CreateLifecycleHook.
CreateLifecycleHook(p) ==
    /\ pc[p] = "create"
    /\ LET hook == lifecyleHooks[p][i[p]] IN
       \/ \* PutLifecycleHook fails
          /\ calls' = [calls EXCEPT ![p] = Append(@, Call("CreateLifecycleHook", hook.Name, "error"))]
          /\ MarkCondition(p, LifecycleHookExistsCondition, CreateFailedCondition)
          /\ Return(p, "error")
          /\ UNCHANGED <<remote, i>>
       \/ \* PutLifecycleHook succeeds: return nil, no condition is written
          /\ \E stored \in PutLifecycleHookOutcomes(CreateLifecycleHookInput(hook)) :
                remote' = [remote EXCEPT ![hook.Name] = <<stored>>]
          /\ calls' = [calls EXCEPT ![p] = Append(@, Call("CreateLifecycleHook", hook.Name, "ok"))]
          /\ NextDesiredHook(p)
          /\ UNCHANGED <<conditions, marks, ret>>
    /\ UNCHANGED <<desired, lifecyleHooks, hooks, j, previous, passes, histVars, pureVars>>

\* reconcileLifecycleHook, the needsUpdate branch: UpdateLifecycleHook.
UpdateLifecycleHook(p) ==
    /\ pc[p] = "update"
    /\ LET hook == lifecyleHooks[p][i[p]] IN
       \/ \* PutLifecycleHook fails
          /\ calls' = [calls EXCEPT ![p] = Append(@, Call("UpdateLifecycleHook", hook.Name, "error"))]
          /\ MarkCondition(p, LifecycleHookExistsCondition,
                           FalseCondition(LifecycleHookUpdateFailedReason))
          /\ Return(p, "error")
          /\ UNCHANGED <<remote, i>>
       \/ \* PutLifecycleHook succeeds: MarkTrue, return nil
          /\ \E stored \in PutLifecycleHookOutcomes(UpdateLifecycleHookInput(hook)) :
                remote' = [remote EXCEPT ![hook.Name] = <<stored>>]
          /\ calls' = [calls EXCEPT ![p] = Append(@, Call("UpdateLifecycleHook", hook.Name, "ok"))]
          /\ MarkCondition(p, LifecycleHookExistsCondition, TrueCondition)
          /\ NextDesiredHook(p)
          /\ UNCHANGED <<ret>>
    /\ UNCHANGED <<desired, lifecyleHooks, hooks, j, previous, passes, histVars, pureVars>>

\* ReconcileLifecycleHooks after the loop: GetLifecycleHooks, then the
\* pruning loop up to its first delete call.
GetLifecycleHooks(p) ==
    /\ pc[p] = "list"
    /\ \/ \* the describe call fails: the error is returned as it is
          /\ calls' = [calls EXCEPT ![p] = Append(@, Call("GetLifecycleHooks", "", "error"))]
          /\ Return(p, "error")
          /\ UNCHANGED <<hooks, j>>
       \/ \* SDKToLifecycleHook panics on one of the listed hooks
          /\ \E n \in RemoteNames : SDKToLifecycleHookPanics(Rebase(remote[n][1], "response"))
          /\ calls' = [calls EXCEPT ![p] = Append(@, Call("GetLifecycleHooks", "", "ok"))]
          /\ Return(p, "panic")
          /\ UNCHANGED <<hooks, j>>
       \/ \* the list is converted and the pruning loop starts
          /\ \A n \in RemoteNames : ~SDKToLifecycleHookPanics(Rebase(remote[n][1], "response"))
          /\ calls' = [calls EXCEPT ![p] = Append(@, Call("GetLifecycleHooks", "", "ok"))]
          /\ \E l \in Listings(RemoteNames) :
                LET hs == [k \in DOMAIN l |-> SDKToLifecycleHook(Rebase(remote[l[k]][1], "response"))] IN
                /\ hooks' = [hooks EXCEPT ![p] = hs]
                /\ Prune(p, hs, 1)
    /\ UNCHANGED <<desired, remote, conditions, lifecyleHooks, i, previous, marks, passes, histVars, pureVars>>

\* The response of the remote API to DeleteLifecycleHook for name n: it may
\* fail; a hook that is there is removed; for a hook that is not there the
\* API answers with success or with a not-found error.
DeleteResponses(n) ==
    IF remote[n] # <<>> THEN {"ok", "error"} ELSE {"ok", "error", "notfound"}

\* What DeleteLifecycleHook returns for a response of the remote API.
\* (DeleteLifecycleHookErrSwallowed: the error of the SDK call dropped.)
DeleteLifecycleHookErrSwallowed(response) == "nil"
DeleteLifecycleHookErr(response) == IF response = "ok" THEN "nil" ELSE "error"

\* The pruning loop at an orphan: DeleteLifecycleHook, then on to the next.
DeleteLifecycleHook(p) ==
    /\ pc[p] = "delete"
    /\ LET hook == hooks[p][j[p]] IN
       \E response \in DeleteResponses(hook.Name) :
          /\ calls' = [calls EXCEPT ![p] = Append(@, Call("DeleteLifecycleHook", hook.Name, response))]
          /\ remote' = IF response = "ok" THEN [remote EXCEPT ![hook.Name] = <<>>] ELSE remote
          /\ IF DeleteLifecycleHookErr(response) # "nil"
                THEN /\ MarkCondition(p, LifecycleHookExistsCondition,
                                      FalseCondition(LifecycleHookDeletionFailedReason))
                     /\ Return(p, "error")
                     /\ UNCHANGED <<j>>
                ELSE /\ Prune(p, hooks[p], j[p] + 1)
                     /\ UNCHANGED <<conditions, marks>>
    /\ UNCHANGED <<desired, lifecyleHooks, i, hooks, previous, passes, histVars, pureVars>>

\* Any step of caller p inside its pass.
PassStep(p) ==
    \/ GetLifecycleHook(p)
    \/ CreateLifecycleHook(p)
    \/ UpdateLifecycleHook(p)
    \/ GetLifecycleHooks(p)
    \/ DeleteLifecycleHook(p)

\* ------------------------------------------------------------------ specifications

InitPass(D, O, C) ==
    /\ desired = D
    /\ remote = O
    /\ conditions = C
    /\ pc = [p \in Procs |-> "idle"]
    /\ lifecyleHooks = [p \in Procs |-> <<>>]
    /\ i = [p \in Procs |-> 1]
    /\ hooks = [p \in Procs |-> <<>>]
    /\ j = [p \in Procs |-> 1]
    /\ ret = [p \in Procs |-> "none"]
    /\ previous = [p \in Procs |-> "none"]
    /\ calls = [p \in Procs |-> <<>>]
    /\ marks = [p \in Procs |-> <<>>]
    /\ passes = 0
    /\ startNames = [p \in Procs |-> {}]
    /\ overlapped = FALSE

\* No scope constructed and no hook converted yet.
NoParams ==
    [Client |-> "nil", Logger |-> "nil", MachinePool |-> "nil",
     AWSMachinePool |-> <<>>, AWSManagedMachinePool |-> <<>>]
NoScope == [status |-> "unset", err |-> "nil", s |-> <<>>]
NoWire == [status |-> "unset"]
NoConverted == [status |-> "unset"]

InitPure(a, b) ==
    /\ healed = FALSE
    /\ argExisting = a
    /\ argExpected = b
    /\ needsUpdate = "unset"
    /\ wire = NoWire
    /\ converted = NoConverted

InitScope(P) ==
    /\ params = P
    /\ scope = NoScope

\* One caller, one pass at a time, nothing else touching the group.
Init ==
    /\ \E D \in DesiredLists, O \in InitialRemote, C \in InitialConditions : InitPass(D, O, C)
    /\ InitPure(NoHook, NoHook)
    /\ InitScope(NoParams)

Next ==
    \/ Start(1)
    \/ GetLifecycleHook(1)
    \/ CreateLifecycleHook(1)
    \/ UpdateLifecycleHook(1)
    \/ GetLifecycleHooks(1)
    \/ DeleteLifecycleHook(1)

Spec == Init /\ [][Next]_vars

\* Two callers whose passes interleave at the remote calls.
NextConc ==
    \E p \in Procs :
        \/ Start(p)
        \/ GetLifecycleHook(p)
        \/ CreateLifecycleHook(p)
        \/ UpdateLifecycleHook(p)
        \/ GetLifecycleHooks(p)
        \/ DeleteLifecycleHook(p)

SpecConc == Init /\ [][NextConc]_vars

\* ------------------------------------------------------------------ uncoordinated passes

\* What the group holds before the passes: nothing under "a"; under "b"
\* nothing or a hook with every field set.
RaceRemotes ==
    {O \in InitialRemote :
        /\ O["a"] = <<>>
        /\ O["b"] # <<>> => ~IsNil(O["b"][1].NotificationMetadata)}

\* The spec before it is edited: hooks with every field set.
RaceLists ==
    {D \in DesiredLists : \A k \in DOMAIN D : ~IsNil(D[k].NotificationMetadata)}

InitRace ==
    /\ \E D \in RaceLists, O \in RaceRemotes :
           InitPass(D, O, [t \in ConditionTypes |-> NoCondition])
    /\ InitPure(NoHook, NoHook)
    /\ InitScope(NoParams)

\* The MachinePool spec is edited between the passes, or while passes run: a
\* hook for instance launch becomes a hook for instance termination.
EditSpec ==
    /\ \E k \in DOMAIN desired :
           /\ desired[k].LifecycleTransition = "autoscaling:EC2_INSTANCE_LAUNCHING"
           /\ desired' = [desired EXCEPT
                             ![k].LifecycleTransition = "autoscaling:EC2_INSTANCE_TERMINATING"]
    /\ UNCHANGED <<remote, conditions, pc, lifecyleHooks, i, hooks, j, ret, previous,
                   calls, marks, passes, histVars, pureVars>>

\* Two callers, each running passes over the spec as it is when the pass
\* starts, with nothing that keeps one pass from starting inside another.
NextRace ==
    \/ EditSpec
    \/ \E p \in Procs :
           \/ Start(p)
           \/ GetLifecycleHook(p)
           \/ CreateLifecycleHook(p)
           \/ UpdateLifecycleHook(p)
           \/ GetLifecycleHooks(p)
           \/ DeleteLifecycleHook(p)

SpecRace == InitRace /\ [][NextRace]_vars

\* ------------------------------------------------------------------ re-invocation

\* What the group may hold when the caller starts re-running the pass:
\* nothing under "a"; under "b" nothing or any hook.
LiveRemotes == {O \in InitialRemote : O["a"] = <<>>}

InitLive ==
    /\ \E D \in DesiredLists, O \in LiveRemotes :
           InitPass(D, O, [t \in ConditionTypes |-> NoCondition])
    /\ InitPure(NoHook, NoHook)
    /\ InitScope(NoParams)

\* The failures of the remote calls are transient: from some moment on no
\* remote call fails.
Heal ==
    /\ ~healed
    /\ healed' = TRUE
    /\ UNCHANGED <<passVars, argExisting, argExpected, needsUpdate, scopeVars, convertVars>>

\* The caller runs ReconcileLifecycleHooks again once the pass before has
\* returned, with the same desired list, as often as it takes.
Reinvoke(p) == Enter(p) /\ UNCHANGED passes

\* A step of caller p's pass; after the failures have passed its remote call
\* does not fail.
LiveStep(p) ==
    /\ PassStep(p)
    /\ healed => calls'[p][Len(calls'[p])].res # "error"

NextLive ==
    \/ Heal
    \/ Reinvoke(1)
    \/ LiveStep(1)

\* The failures do pass, the caller does re-run the pass, and a pass that is
\* running goes on.
SpecLive ==
    /\ InitLive
    /\ [][NextLive]_vars
    /\ WF_vars(Heal)
    /\ WF_vars(Reinvoke(1))
    /\ WF_vars(LiveStep(1))

\* ------------------------------------------------------------------ the scope

\* The AWSMachinePool / AWSManagedMachinePool objects a scope is built over:
\* a name and the lifecycle hooks of the spec.
PoolNames == {"pool-1", "pool-2"}
PoolHookLists ==
    {<<>>} \cup {<<h>> : h \in PoolHooks("a")}
           \cup {<<h, g>> : h \in PoolHooks("a"), g \in PoolHooks("b")}
Pools == {[Name |-> n, AWSLifecycleHooks |-> hs] : n \in PoolNames, hs \in PoolHookLists}

\* LifecycleHookScopeParams: the client and the logger nil or set, the three
\* pool pointers nil (<<>>) or pointing at an object (<<object>>).
ScopeParams ==
    [Client : {"nil", "client"},
     Logger : {"nil", "logger"},
     MachinePool : {"nil", "machinepool"},
     AWSMachinePool : {<<>>} \cup {<<pl>> : pl \in Pools},
     AWSManagedMachinePool : {<<>>} \cup {<<pl>> : pl \in Pools}]

LifecycleHookScope(client, logger, name, lifecycleHooks, machinePool, awsMachinePool, awsManagedMachinePool) ==
    [Client |-> client,
     Logger |-> logger,
     PoolName |-> name,
     LifecycleHooks |-> lifecycleHooks,
     MachinePool |-> machinePool,
     AWSMachinePool |-> awsMachinePool,
     AWSManagedMachinePool |-> awsManagedMachinePool]

\* The name and hook list NewLifecycleHookScope takes from the pool objects:
\* the AWSMachinePool's when it is set, then the AWSManagedMachinePool's when
\* that is set.
ScopePool(P) ==
    IF P.AWSManagedMachinePool # <<>> THEN P.AWSManagedMachinePool[1]
    ELSE IF P.AWSMachinePool # <<>> THEN P.AWSMachinePool[1]
    ELSE [Name |-> "", AWSLifecycleHooks |-> <<>>]

NewScope(P) ==
    [status |-> "returned",
     err |-> "nil",
     s |-> <<LifecycleHookScope(P.Client,
                                IF P.Logger = "nil" THEN "klog" ELSE P.Logger,
                                ScopePool(P).Name,
                                ScopePool(P).AWSLifecycleHooks,
                                P.MachinePool,
                                P.AWSMachinePool,
                                P.AWSManagedMachinePool)>>]
InvalidScope == [status |-> "returned", err |-> "error", s |-> <<>>]

\* NewLifecycleHookScope without its fourth test.
NewLifecycleHookScopeAllowsBoth(P) ==
    IF P.Client = "nil" THEN InvalidScope
    ELSE IF P.MachinePool = "nil" THEN InvalidScope
    ELSE IF P.AWSMachinePool = <<>> /\ P.AWSManagedMachinePool = <<>> THEN InvalidScope
    ELSE NewScope(P)

NewLifecycleHookScope(P) ==
    IF P.Client = "nil" THEN InvalidScope
    ELSE IF P.MachinePool = "nil" THEN InvalidScope
    ELSE IF P.AWSMachinePool = <<>> /\ P.AWSManagedMachinePool = <<>> THEN InvalidScope
    ELSE IF P.AWSMachinePool # <<>> /\ P.AWSManagedMachinePool # <<>> THEN InvalidScope
    ELSE NewScope(P)

GetASGName(s) == s.PoolName
ScopeGetLifecycleHooks(s) == s.LifecycleHooks
GetMachinePool(s) == s.MachinePool

\* What the group holds when a scope is built: nothing, or one hook "b".
ScopeRemotes ==
    {O \in InitialRemote :
        /\ O["a"] = <<>>
        /\ O["b"] # <<>> => O["b"][1].DefaultResult = Ptr("remote", "CONTINUE")}

InitNewScope ==
    /\ \E O \in ScopeRemotes : InitPass(<<>>, O, [t \in ConditionTypes |-> NoCondition])
    /\ InitPure(NoHook, NoHook)
    /\ \E P \in ScopeParams : InitScope(P)

\* The caller builds the scope of the passes to come.
NewLifecycleHookScopeCall ==
    /\ scope.status = "unset"
    /\ scope' = NewLifecycleHookScope(params)
    /\ desired' = IF scope'.err = "nil" THEN ScopeGetLifecycleHooks(scope'.s[1]) ELSE desired
    /\ UNCHANGED <<remote, conditions, pc, lifecyleHooks, i, hooks, j, ret, previous,
                   calls, marks, passes, histVars, healed, argExisting, argExpected,
                   needsUpdate, params, convertVars>>

\* ReconcileLifecycleHooks(scope) needs the scope.
ReconcileLifecycleHooks ==
    /\ scope.status = "returned"
    /\ scope.err = "nil"
    /\ Start(1)

NextScope ==
    \/ NewLifecycleHookScopeCall
    \/ ReconcileLifecycleHooks
    \/ GetLifecycleHook(1)
    \/ CreateLifecycleHook(1)
    \/ UpdateLifecycleHook(1)
    \/ GetLifecycleHooks(1)
    \/ DeleteLifecycleHook(1)

SpecScope == InitNewScope /\ [][NextScope]_vars

\* ------------------------------------------------------------------ the pure functions

\* Hooks LifecycleHookNeedsUpdate is applied to: each pointer field nil, or a
\* pointer into the pool's spec, or a pointer of a hook that was rebuilt from
\* a response.
PureHooks ==
    {AWSLifecycleHook("a", target, NilStr, transition, timeout, result, metadata) :
        target \in {NilStr, Ptr("spec", "arn:sns"), Ptr("response", "arn:sns")},
        transition \in LifecycleTransitions,
        timeout \in {NilInt} \cup {Ptr(b, d) : b \in {"spec", "sdk"}, d \in WholeDurations},
        result \in {NilStr} \cup {Ptr(b, r) : b \in {"spec", "sdk"}, r \in DefaultResults},
        metadata \in {NilStr, Ptr("spec", "meta"), Ptr("response", "meta")}}

InitNeedsUpdate ==
    /\ InitPass(<<>>, [n \in Names |-> <<>>], [t \in ConditionTypes |-> NoCondition])
    /\ \E a \in PureHooks, b \in PureHooks : InitPure(a, b)
    /\ InitScope(NoParams)

\* asgsvc.LifecycleHookNeedsUpdate(scope, existing, expected) is called.
NeedsUpdateCall ==
    /\ needsUpdate = "unset"
    /\ needsUpdate' = IF LifecycleHookNeedsUpdate(argExisting, argExpected) THEN "true" ELSE "false"
    /\ UNCHANGED <<healed, argExisting, argExpected, scopeVars, convertVars, passVars>>

NextNeedsUpdate == NeedsUpdateCall

SpecNeedsUpdate == InitNeedsUpdate /\ [][NextNeedsUpdate]_vars

\* ------------------------------------------------------------------ the conversions

\* Heartbeat timeouts a MachinePool spec can hold: whole seconds, seconds
\* with a sub-second part, negative ones, and ones of 2^24 seconds, where
\* float64 has fewer than nine decimal places left for the fraction.
ConvertDurations ==
    {Duration(sec, nsec) : sec \in (0..MaxSeconds) \cup {TwoTo(24)},
                           nsec \in {0, Second \div 2, Second - 1}}
    \cup ({Duration(-sec, -nsec) : sec \in 0..MaxSeconds, nsec \in {0, Second \div 2}}
             \ {Duration(0, 0)})

ConvertHooks ==
    {AWSLifecycleHook("a", NilStr, NilStr, transition, timeout, result, NilStr) :
        transition \in LifecycleTransitions,
        timeout \in {NilInt} \cup {Ptr("spec", d) : d \in ConvertDurations},
        result \in {NilStr} \cup {Ptr("spec", r) : r \in DefaultResults}}

InitConvert ==
    /\ InitPass(<<>>, [n \in Names |-> <<>>], [t \in ConditionTypes |-> NoCondition])
    /\ \E h \in ConvertHooks : InitPure(NoHook, h)
    /\ InitScope(NoParams)

\* A request was sent for the hook and the group answers a describe call with
\* what it then holds.
Answered(op, input, stored) ==
    [status |-> "answered", op |-> op, input |-> input, hook |-> Rebase(stored, "response")]

\* asgsvc.CreateLifecycleHook(scope, hook), then the hook is described.
CreateLifecycleHookCall ==
    /\ wire.status = "unset"
    /\ \E stored \in PutLifecycleHookOutcomes(CreateLifecycleHookInput(argExpected)) :
           wire' = Answered("CreateLifecycleHook", CreateLifecycleHookInput(argExpected), stored)
    /\ UNCHANGED <<healed, argExisting, argExpected, needsUpdate, scopeVars, converted, passVars>>

\* asgsvc.UpdateLifecycleHook(scope, hook), then the hook is described.
UpdateLifecycleHookCall ==
    /\ wire.status = "unset"
    /\ \E stored \in PutLifecycleHookOutcomes(UpdateLifecycleHookInput(argExpected)) :
           wire' = Answered("UpdateLifecycleHook", UpdateLifecycleHookInput(argExpected), stored)
    /\ UNCHANGED <<healed, argExisting, argExpected, needsUpdate, scopeVars, converted, passVars>>

\* SDKToLifecycleHook(hook) on the hook of the response.
SDKToLifecycleHookCall ==
    /\ wire.status = "answered"
    /\ converted.status = "unset"
    /\ converted' = IF SDKToLifecycleHookPanics(wire.hook)
                       THEN [status |-> "panic"]
                       ELSE [status |-> "ok", hook |-> SDKToLifecycleHook(wire.hook)]
    /\ UNCHANGED <<healed, argExisting, argExpected, needsUpdate, scopeVars, wire, passVars>>

NextConvert ==
    \/ CreateLifecycleHookCall
    \/ UpdateLifecycleHookCall
    \/ SDKToLifecycleHookCall

SpecConvert == InitConvert /\ [][NextConvert]_vars

\* ------------------------------------------------------------------ vocabulary of the claims

Mutations == {"CreateLifecycleHook", "UpdateLifecycleHook", "DeleteLifecycleHook"}
Reads == {"GetLifecycleHook", "GetLifecycleHooks"}

\* The calls of caller p's pass so far whose operation is in ops.
CallsOf(p, ops) == {k \in DOMAIN calls[p] : calls[p][k].op \in ops}

\* Caller p's pass has returned err.
Returned(p, err) == pc[p] = "done" /\ ret[p] = err

\* The value a compared field holds: <<>> when the field is absent.
ComparedFields ==
    {"DefaultResult", "HeartbeatTimeout", "LifecycleTransition",
     "NotificationTargetARN", "NotificationMetadata"}
FieldValue(h, f) ==
    IF f = "LifecycleTransition" THEN <<h[f]>>
    ELSE IF IsNil(h[f]) THEN <<>> ELSE <<h[f].val>>
DifferingFields(a, b) == {f \in ComparedFields : FieldValue(a, f) # FieldValue(b, f)}

\* The writes of caller p's pass to the LifecycleHookExists condition.
ExistsMarks(p) == {k \in DOMAIN marks[p] : marks[p][k].type = LifecycleHookExistsCondition}

\* ------------------------------------------------------------------ C1

\* C1: when a pass that runs alone returns no error, the names of the hooks
\* registered on the remote group are exactly the names of the desired list.
C1_RemoteNamesEqualDesired ==
    Returned(1, "nil") => RemoteNames = HookNames(lifecyleHooks[1])

\* A pass returned nil after it created a missing hook and deleted an orphan.
C1_Witness ==
    /\ Returned(1, "nil")
    /\ \E k \in DOMAIN calls[1] : calls[1][k].op = "CreateLifecycleHook" /\ calls[1][k].res = "ok"
    /\ \E k \in DOMAIN calls[1] : calls[1][k].op = "DeleteLifecycleHook" /\ calls[1][k].res = "ok"

\* ------------------------------------------------------------------ C2

\* C2: a pass that follows a pass which returned no error, with the same
\* desired list and no outside change, issues no create, update or delete
\* call, and LifecycleHookExists is True when it has returned no error.
C2_SecondPassIsNoOp ==
    (previous[1] = "nil" /\ pc[1] # "idle") =>
        /\ CallsOf(1, Mutations) = {}
        /\ Returned(1, "nil") => conditions[LifecycleHookExistsCondition] = TrueCondition

\* ------------------------------------------------------------------ C3

\* C3: LifecycleHookNeedsUpdate returns true if and only if one of the five
\* compared fields differs by value between the two hooks.
C3_NeedsUpdateIffValuesDiffer ==
    needsUpdate # "unset" =>
        (needsUpdate = "true" <=> DifferingFields(argExisting, argExpected) # {})

\* ------------------------------------------------------------------ C4

\* C4: LifecycleHookNeedsUpdate(h, h) is false, and LifecycleHookNeedsUpdate(a, b)
\* is true when a and b differ in the value of exactly one compared field.
C4_ReflexiveAndOneFieldDiffers ==
    needsUpdate # "unset" =>
        /\ argExisting = argExpected => needsUpdate = "false"
        /\ Cardinality(DifferingFields(argExisting, argExpected)) = 1 => needsUpdate = "true"

\* The call returned true for two hooks that differ in the notification
\* metadata alone, present in one and absent in the other.
C4_Witness ==
    /\ needsUpdate = "true"
    /\ DifferingFields(argExisting, argExpected) = {"NotificationMetadata"}
    /\ IsNil(argExisting.NotificationMetadata)
    /\ ~IsNil(argExpected.NotificationMetadata)

\* ------------------------------------------------------------------ C5

\* C5: a failed CreateLifecycleHook for the N-th desired hook is the last
\* remote call of the pass: only hooks 1..N were looked up, nothing was listed
\* or deleted, LifecycleHookExists is False with reason CreationFailed, and
\* the pass has returned the error.
C5_CreateFailureAbortsPass ==
    \A k \in DOMAIN calls[1] :
        (calls[1][k].op = "CreateLifecycleHook" /\ calls[1][k].res = "error") =>
            /\ k = Len(calls[1])
            /\ Returned(1, "error")
            /\ calls[1][k].name = lifecyleHooks[1][i[1]].Name
            /\ Cardinality(CallsOf(1, {"GetLifecycleHook"})) = i[1]
            /\ Cardinality(CallsOf(1, {"CreateLifecycleHook", "UpdateLifecycleHook"})) <= i[1]
            /\ CallsOf(1, {"GetLifecycleHooks", "DeleteLifecycleHook"}) = {}
            /\ conditions[LifecycleHookExistsCondition] =
                   FalseCondition(LifecycleHookCreationFailedReason)

\* The create of the first of two desired hooks failed.
C5_Witness ==
    /\ Len(lifecyleHooks[1]) = 2
    /\ lifecyleHooks[1][1].Name # lifecyleHooks[1][2].Name
    /\ calls[1] = <<Call("GetLifecycleHook", lifecyleHooks[1][1].Name, "absent"),
                    Call("CreateLifecycleHook", lifecyleHooks[1][1].Name, "error")>>
    /\ Returned(1, "error")

\* ------------------------------------------------------------------ C6

\* C6: a DeleteLifecycleHook that the remote API answers with not-found is a
\* success: the pass does not return an error on it and does not mark
\* LifecycleHookExists False for it.
C6_DeleteNotFoundIsSuccess ==
    \A p \in Procs : \A k \in DOMAIN calls[p] :
        (calls[p][k].op = "DeleteLifecycleHook" /\ calls[p][k].res = "notfound") =>
            /\ ~(k = Len(calls[p]) /\ Returned(p, "error"))
            /\ \A m \in ExistsMarks(p) :
                   marks[p][m].cond # FalseCondition(LifecycleHookDeletionFailedReason)

\* ------------------------------------------------------------------ C7

\* C7: a pass that returns no error leaves LifecycleHookExists True.
C7_SuccessLeavesExistsTrue ==
    Returned(1, "nil") => conditions[LifecycleHookExistsCondition] = TrueCondition

\* ------------------------------------------------------------------ C8

\* C8: a pass writes LifecycleHookExists True only when no desired hook is
\* left unprocessed, and a pass that returned an error does not leave
\* LifecycleHookExists at a True it wrote itself.
C8_TrueOnlyAfterAllHooks ==
    /\ \A m \in ExistsMarks(1) :
           marks[1][m].cond = TrueCondition => marks[1][m].at = Len(lifecyleHooks[1])
    /\ Returned(1, "error") =>
           ~(/\ conditions[LifecycleHookExistsCondition] = TrueCondition
             /\ \E m \in ExistsMarks(1) : marks[1][m].cond = TrueCondition)

\* ------------------------------------------------------------------ C9

\* C9: a pass that returned an error has written a False or Unknown
\* condition on the machine pool.
C9_ErrorHasCondition ==
    Returned(1, "error") =>
        \E m \in DOMAIN marks[1] : marks[1][m].cond.status \in {"False", "Unknown"}

\* ------------------------------------------------------------------ C10

\* C10: a failed GetLifecycleHook or GetLifecycleHooks is the last remote call
\* of the pass, the pass returns the error, and LifecycleHookExists is Unknown.
C10_ReadFailureMarksExistsUnknown ==
    \A k \in DOMAIN calls[1] :
        (calls[1][k].op \in Reads /\ calls[1][k].res = "error") =>
            /\ k = Len(calls[1])
            /\ Returned(1, "error")
            /\ conditions[LifecycleHookExistsCondition].status = "Unknown"

\* ------------------------------------------------------------------ C11

\* The calls of caller p's pass that changed the group.
Applied(p, ops) == {k \in CallsOf(p, ops) : calls[p][k].res = "ok"}

\* C11: a failed UpdateLifecycleHook leaves LifecycleHookExists False with
\* reason UpdateFailed, a failed DeleteLifecycleHook leaves it False with
\* reason DeletionFailed; either is the last remote call of the pass, which
\* has returned the error; what the pass created, updated or deleted before
\* is still so on the group.
C11_UpdateDeleteFailureAbortsPass ==
    /\ \A k \in DOMAIN calls[1] :
           (calls[1][k].op = "UpdateLifecycleHook" /\ calls[1][k].res # "ok") =>
               /\ k = Len(calls[1])
               /\ Returned(1, "error")
               /\ conditions[LifecycleHookExistsCondition] =
                      FalseCondition(LifecycleHookUpdateFailedReason)
    /\ \A k \in DOMAIN calls[1] :
           (calls[1][k].op = "DeleteLifecycleHook" /\ calls[1][k].res # "ok") =>
               /\ k = Len(calls[1])
               /\ Returned(1, "error")
               /\ conditions[LifecycleHookExistsCondition] =
                      FalseCondition(LifecycleHookDeletionFailedReason)
    /\ \A k \in Applied(1, {"CreateLifecycleHook", "UpdateLifecycleHook"}) :
           calls[1][k].name \in RemoteNames
    /\ \A k \in Applied(1, {"DeleteLifecycleHook"}) : calls[1][k].name \notin RemoteNames

\* A pass ended on a failed delete after a create of the same pass had been
\* applied.
C11_Witness ==
    /\ Returned(1, "error")
    /\ Applied(1, {"CreateLifecycleHook"}) # {}
    /\ calls[1][Len(calls[1])].res = "error"
    /\ calls[1][Len(calls[1])].op = "DeleteLifecycleHook"

\* ------------------------------------------------------------------ C17

\* Caller p's desired list names every hook once.
DistinctNames(p) ==
    \A x, y \in DOMAIN lifecyleHooks[p] :
        x # y => lifecyleHooks[p][x].Name # lifecyleHooks[p][y].Name

\* The number of calls of operation op for name n in caller p's pass.
CallCount(p, op, n) == Cardinality({k \in CallsOf(p, {op}) : calls[p][k].name = n})

\* C17: a pass over a desired list of distinct names that returned no error
\* called CreateLifecycleHook once for each desired name that was not on the
\* group when it started and for no other name, and DeleteLifecycleHook once
\* for each name that was on the group and is not desired and for no other.
C17_CreatesAndDeletesAreTheDifference ==
    (Returned(1, "nil") /\ DistinctNames(1)) =>
        \A n \in Names :
            /\ CallCount(1, "CreateLifecycleHook", n) =
                   (IF n \in HookNames(lifecyleHooks[1]) \ startNames[1] THEN 1 ELSE 0)
            /\ CallCount(1, "DeleteLifecycleHook", n) =
                   (IF n \in startNames[1] \ HookNames(lifecyleHooks[1]) THEN 1 ELSE 0)

\* A pass returned nil that had a desired name to create and an orphan to delete.
C17_Witness ==
    /\ Returned(1, "nil")
    /\ DistinctNames(1)
    /\ HookNames(lifecyleHooks[1]) \ startNames[1] # {}
    /\ startNames[1] \ HookNames(lifecyleHooks[1]) # {}

\* ------------------------------------------------------------------ C18

\* C18: in a pass run alone, CreateLifecycleHook directly follows a
\* GetLifecycleHook that returned absent for the same name and the name is
\* not on the group when it is issued; UpdateLifecycleHook directly follows a
\* GetLifecycleHook that returned present for the same name; the list call
\* comes after every desired hook was looked up and after every create and
\* update, and its result holds the hooks the pass created.
C18_OrderOfCalls ==
    /\ \A k \in DOMAIN calls[1] :
           /\ calls[1][k].op = "CreateLifecycleHook" =>
                  k > 1 /\ calls[1][k - 1] = Call("GetLifecycleHook", calls[1][k].name, "absent")
           /\ calls[1][k].op = "UpdateLifecycleHook" =>
                  k > 1 /\ calls[1][k - 1] = Call("GetLifecycleHook", calls[1][k].name, "present")
           /\ calls[1][k].op = "GetLifecycleHooks" =>
                  /\ Cardinality({m \in CallsOf(1, {"GetLifecycleHook"}) : m < k}) =
                         Len(lifecyleHooks[1])
                  /\ \A m \in CallsOf(1, {"GetLifecycleHook", "CreateLifecycleHook",
                                          "UpdateLifecycleHook"}) : m < k
    /\ pc[1] = "create" => remote[lifecyleHooks[1][i[1]].Name] = <<>>
    /\ pc[1] = "update" => remote[lifecyleHooks[1][i[1]].Name] # <<>>
    /\ (pc[1] = "delete" \/ Returned(1, "nil")) =>
           \A k \in Applied(1, {"CreateLifecycleHook"}) : calls[1][k].name \in HookNames(hooks[1])

\* A pass of two desired hooks created one, updated the other and listed both.
C18_Witness ==
    /\ Returned(1, "nil")
    /\ Len(lifecyleHooks[1]) = 2
    /\ Applied(1, {"CreateLifecycleHook"}) # {}
    /\ Applied(1, {"UpdateLifecycleHook"}) # {}
    /\ Len(hooks[1]) = 2

\* ------------------------------------------------------------------ C20

\* C20: a pass makes at most one GetLifecycleHook per desired entry, at most
\* one create or update after each of them and never both, at most one list
\* call, at most one delete per listed hook and none twice for a name; its
\* calls are bounded by that, and a pass that has not returned can take its
\* next step: it ends.
C20_BoundedCallsAndTermination ==
    /\ Cardinality(CallsOf(1, {"GetLifecycleHook"})) <= Len(lifecyleHooks[1])
    /\ \A k \in CallsOf(1, {"CreateLifecycleHook", "UpdateLifecycleHook"}) :
           k > 1 /\ calls[1][k - 1].op = "GetLifecycleHook"
    /\ Cardinality(CallsOf(1, {"GetLifecycleHooks"})) <= 1
    /\ Cardinality(CallsOf(1, {"DeleteLifecycleHook"})) <= Len(hooks[1])
    /\ \A k, m \in CallsOf(1, {"DeleteLifecycleHook"}) :
           k # m => calls[1][k].name # calls[1][m].name
    /\ Len(calls[1]) <= 2 * Len(lifecyleHooks[1]) + 1 + Len(hooks[1])
    /\ Running(1) => ENABLED PassStep(1)

\* A pass that used every call it may make: a get and a mutation for each of
\* two desired hooks, the list call and a delete.
C20_Witness ==
    /\ Returned(1, "nil")
    /\ Len(lifecyleHooks[1]) = 2
    /\ Len(calls[1]) = 6
    /\ CallsOf(1, {"DeleteLifecycleHook"}) # {}

\* ------------------------------------------------------------------ C19

\* C19: in every pass, returned or not, of callers that interleave over the
\* same desired list, DeleteLifecycleHook is never called for a name of the
\* desired list, nor for a name the same pass created or updated.
C19_NoDeleteOfDesiredName ==
    \A p \in Procs : \A k \in CallsOf(p, {"DeleteLifecycleHook"}) :
        /\ calls[p][k].name \notin HookNames(desired)
        /\ calls[p][k].name \notin HookNames(lifecyleHooks[p])
        /\ \A m \in Applied(p, {"CreateLifecycleHook", "UpdateLifecycleHook"}) :
               calls[p][m].name # calls[p][k].name

\* Two passes overlapped, and one of them applied a create or update and
\* then called delete for an orphan.
C19_Witness ==
    /\ overlapped
    /\ \E p \in Procs :
           /\ Applied(p, {"CreateLifecycleHook", "UpdateLifecycleHook"}) # {}
           /\ CallsOf(p, {"DeleteLifecycleHook"}) # {}
           /\ Running(CHOOSE q \in Procs : q # p)

\* ------------------------------------------------------------------ C12

\* The pool variants the params supply.
SuppliedPools(P) == {v \in {"AWSMachinePool", "AWSManagedMachinePool"} : P[v] # <<>>}

\* C12: NewLifecycleHookScope returns an error and no scope exactly when the
\* client is nil, the MachinePool is nil, or the number of pool variants
\* supplied is not one; otherwise it returns a scope whose ASG name and
\* lifecycle hooks are the name and spec hooks of the variant supplied, and
\* the passes run over those hooks. After a failed construction no remote
\* call has been made.
C12_ScopeConstruction ==
    scope.status = "returned" =>
        /\ scope.err = "error" <=>
               \/ params.Client = "nil"
               \/ params.MachinePool = "nil"
               \/ Cardinality(SuppliedPools(params)) # 1
        /\ scope.err = "error" =>
               /\ scope.s = <<>>
               /\ passes = 0
               /\ \A p \in Procs : calls[p] = <<>> /\ pc[p] = "idle"
        /\ scope.err = "nil" =>
               \E v \in SuppliedPools(params) :
                   /\ SuppliedPools(params) = {v}
                   /\ GetASGName(scope.s[1]) = params[v][1].Name
                   /\ ScopeGetLifecycleHooks(scope.s[1]) = params[v][1].AWSLifecycleHooks
                   /\ GetMachinePool(scope.s[1]) = params.MachinePool
                   /\ pc[1] # "idle" => lifecyleHooks[1] = params[v][1].AWSLifecycleHooks

\* A scope over an AWSManagedMachinePool with hooks was built and a pass over
\* it has returned.
C12_Witness ==
    /\ scope.status = "returned"
    /\ scope.err = "nil"
    /\ params.AWSManagedMachinePool # <<>>
    /\ params.AWSManagedMachinePool[1].AWSLifecycleHooks # <<>>
    /\ Returned(1, "nil")
    /\ calls[1] # <<>>

\* ------------------------------------------------------------------ C14

\* C14: SDKToLifecycleHook completes for every hook of a response, and a hook
\* whose default result is absent reads as CONTINUE, a hook whose heartbeat
\* timeout is absent reads as a timeout that is set and not zero.
C14_AbsentFieldsReadAsDefaults ==
    converted.status # "unset" =>
        /\ converted.status = "ok"
        /\ IsNil(wire.hook.DefaultResult) =>
               /\ ~IsNil(converted.hook.DefaultResult)
               /\ converted.hook.DefaultResult.val = "CONTINUE"
        /\ IsNil(wire.hook.HeartbeatTimeout) =>
               /\ ~IsNil(converted.hook.HeartbeatTimeout)
               /\ converted.hook.HeartbeatTimeout.val # Duration(0, 0)

\* ------------------------------------------------------------------ C15

\* C15: the heartbeat timeout CreateLifecycleHook and UpdateLifecycleHook
\* send is the desired duration truncated toward zero to whole seconds (its
\* d / Second part), the same on both calls, and a duration of whole
\* seconds is read back by SDKToLifecycleHook as the same duration.
C15_HeartbeatRoundTrip ==
    (wire.status = "answered" /\ ~IsNil(argExpected.HeartbeatTimeout)) =>
        /\ wire.input.HeartbeatTimeout.val = argExpected.HeartbeatTimeout.val.sec
        /\ CreateLifecycleHookInput(argExpected).HeartbeatTimeout =
               UpdateLifecycleHookInput(argExpected).HeartbeatTimeout
        /\ (converted.status = "ok" /\ argExpected.HeartbeatTimeout.val.nsec = 0) =>
               converted.hook.HeartbeatTimeout.val = argExpected.HeartbeatTimeout.val

\* ------------------------------------------------------------------ C13

\* C13: when the caller keeps re-running the pass over an unchanged desired
\* list and the failures of the remote calls are transient, eventually a pass
\* has returned nil and the names on the group are the desired names.
C13_EventuallyConverges ==
    <>(Returned(1, "nil") /\ RemoteNames = HookNames(desired))

\* ------------------------------------------------------------------ C16

\* Both callers' passes created a hook of the same name.
DoubleCreate ==
    \E n \in Names : \A p \in Procs :
        \E k \in Applied(p, {"CreateLifecycleHook"}) : calls[p][k].name = n

\* A pass over the spec as it is now has returned nil, and yet the group
\* lacks one of its hooks or holds it with another transition: what that
\* pass wrote was overwritten from an older spec.
LostUpdate ==
    \E q \in Procs :
        /\ Returned(q, "nil")
        /\ lifecyleHooks[q] = desired
        /\ DistinctNames(q)
        /\ \E k \in DOMAIN desired :
               \/ remote[desired[k].Name] = <<>>
               \/ remote[desired[k].Name][1].LifecycleTransition.val #
                      desired[k].LifecycleTransition

\* C16: passes are not coordinated: a double create and a lost update are
\* reachable when passes interleave, and neither is reachable as long as no
\* pass has started while another was running.
C16_RacesNeedOverlap == (DoubleCreate \/ LostUpdate) => overlapped

\* Two interleaved passes both created the hook, and the pass over the older
\* spec overwrote what the pass over the newer spec had written.
C16_Witness ==
    /\ overlapped
    /\ DoubleCreate
    /\ LostUpdate

====
